---- MODULE Spec2Model ----
(***************************************************************************)
(* The skew-X projection of skewt_iasi_0139.py: the SkewXAxes view limits  *)
(* and transform stack, the lower/upper X intervals derived from them, the *)
(* SkewXTick visibility properties, the SkewXAxis view interval and the    *)
(* spines' _adjust_location.                                               *)
(*                                                                         *)
(* Numbers.  The program computes in floating point.  Here every           *)
(* coordinate (data space and normalized-axes space alike) is a fixed-     *)
(* point integer counted in 1/One, so the float 1. is One and the data     *)
(* value -50 is -50 * One.  tan(30 degrees) = 0.57735... is TanRot / One.  *)
(* The view limits take whole data units, which keeps the inverse of the   *)
(* limits normalization exact.                                             *)
(***************************************************************************)
EXTENDS Integers, Sequences, FiniteSets, TLC

VARIABLES
  viewLim,   \* the axes' view limits (data space)
  yscale,    \* the scale of the Y axis
  tick,      \* one SkewXTick: its location and its raw flags
  spines,    \* the four spines: class and path vertices
  built,     \* how many times _set_lim_and_transforms has run
  pc,        \* where the tick's update_position stands, and its argument
  raised,    \* the exception the last call surfaced to its caller
  sounding,  \* the temperatures T_UP, T_LO, TD_LO handed to the Haines functions
  HI         \* what Haines_M and Haines_H printed and returned, once called

vars == <<viewLim, yscale, tick, spines, built, pc, raised, sounding, HI>>

(***************************************************************************)
(* Bounds of the model and constants of the program.                       *)
(***************************************************************************)
\* X view limits are drawn from -MaxX .. MaxX whole data units.
MaxX == 1

\* Temperatures are drawn from 0 .. MaxT degrees.
MaxT == 22

\* pts = [[0., 1.], [1., 1.]]: the fixed-point image of the float 1.
One == 1000

\* rot = 30, the shear angle in degrees.
rot == 30

\* tan(rot degrees) in 1/One: skew_deg(rot, 0) puts tan(30 deg) in the matrix.
TanRot == 577

XVals == (0 - MaxX) .. MaxX

\* Y view limits: the powers of ten a log axis maps to whole decades.
YVals == {1, 10}

\* The value None of a tick location; a set location v is <<v>>.
None == << >>

\* Tick locations: unset, every whole unit in range, and every end point an
\* upper interval can have (x - tan(rot) * width), so that a location can sit
\* exactly on a bound of the lower, the upper and the total interval.
Locs ==
  {None} \cup
  { <<a * One - TanRot * b>> : a \in XVals, b \in (0 - 2 * MaxX) .. (2 * MaxX) }

(***************************************************************************)
(* Haines_H and Haines_M.                                                  *)
(***************************************************************************)
\* Temperatures are floats: a number v is <<v>>, counted in half degrees, so
\* that values lie strictly between two whole thresholds; NaN is the float
\* that compares False with everything.
NaN == << >>

\* The whole number t of degrees, in half degrees.
Deg(t) == 2 * t

\* a - b on floats.
Sub(a, b) == IF a = NaN \/ b = NaN THEN NaN ELSE << a[1] - b[1] >>

\* a < t, a >= t, a <= t with t a whole literal.
Lt(a, t) == a # NaN /\ a[1] < Deg(t)

Ge(a, t) == a # NaN /\ a[1] >= Deg(t)

Le(a, t) == a # NaN /\ a[1] <= Deg(t)

\* The stability term of Haines_H with a middle category open at 17.
Haines_H_ST_exclusive(Tdiff) ==
  IF Le(Tdiff, 17) THEN 1
  ELSE IF Ge(Tdiff, 17) /\ Le(Tdiff, 21) THEN 2
  ELSE 3

\* Haines_H: if Tdiff < 17 ... elif Tdiff >= 17 and Tdiff <= 21 ... else.
Haines_H_ST(Tdiff) ==
  IF Lt(Tdiff, 17) THEN 1
  ELSE IF Ge(Tdiff, 17) /\ Le(Tdiff, 21) THEN 2
  ELSE 3

\* Haines_H: if DD_LO < 14 ... elif DD_LO >= 14 and DD_LO <= 20 ... else.
Haines_H_MT(DD_LO) ==
  IF Lt(DD_LO, 14) THEN 1
  ELSE IF Ge(DD_LO, 14) /\ Le(DD_LO, 20) THEN 2
  ELSE 3

\* What Haines_H prints (ST, MT) and returns (HI).
Haines_H(T_UP, T_LO, TD_LO) ==
  LET Tdiff == Sub(T_LO, T_UP)
      DD_LO == Sub(T_LO, TD_LO)
      ST    == Haines_H_ST(Tdiff)
      MT    == Haines_H_MT(DD_LO)
  IN  [ST |-> ST, MT |-> MT, HI |-> ST + MT]

\* Haines_M: if Tdiff < 5 ... elif Tdiff >= 5 and Tdiff <= 10 ... else.
Haines_M_ST(Tdiff) ==
  IF Lt(Tdiff, 5) THEN 1
  ELSE IF Ge(Tdiff, 5) /\ Le(Tdiff, 10) THEN 2
  ELSE 3

\* Haines_M: if DD_LO < 5 ... elif DD_LO >= 5 and DD_LO <= 12 ... else.
Haines_M_MT(DD_LO) ==
  IF Lt(DD_LO, 5) THEN 1
  ELSE IF Ge(DD_LO, 5) /\ Le(DD_LO, 12) THEN 2
  ELSE 3

Haines_M(T_UP, T_LO, TD_LO) ==
  LET Tdiff == Sub(T_LO, T_UP)
      DD_LO == Sub(T_LO, TD_LO)
      ST    == Haines_M_ST(Tdiff)
      MT    == Haines_M_MT(DD_LO)
  IN  [ST |-> ST, MT |-> MT, HI |-> ST + MT]

\* The temperatures of a sounding: NaN and every half degree of 0 .. MaxT.
Temps == {NaN} \cup { <<h>> : h \in 0 .. Deg(MaxT) }

\* The lower level's temperature: NaN, MaxT and half a degree less, so that
\* both differences run over 0 .. MaxT and over the half degrees between.
TempsLo == {NaN, <<Deg(MaxT)>>, <<Deg(MaxT) - 1>>}

Soundings ==
  [T_UP : Temps, T_LO : TempsLo, TD_LO : Temps]

\* Every difference two temperatures can have.
Diffs == {NaN} \cup { <<h>> : h \in (0 - Deg(MaxT)) .. Deg(MaxT) }

(***************************************************************************)
(* Arithmetic helpers.                                                     *)
(***************************************************************************)
\* Float division a / b, rounded toward minus infinity, for either sign of b.
Quot(a, b) == IF b > 0 THEN a \div b ELSE (0 - a) \div (0 - b)

\* log10 of a fixed-point value (exact on the powers of ten).
RECURSIVE Log10(_)
Log10(v) == IF v < 10 * One THEN 0 ELSE One + Log10(v \div 10)

\* 10 ** s of a fixed-point value (exact on whole s >= 0).
RECURSIVE Pow10(_)
Pow10(s) == IF s < One THEN One ELSE 10 * Pow10(s - One)

(***************************************************************************)
(* matplotlib.transforms.interval_contains(interval, val), as the tick     *)
(* calls it: inclusive at both ends, for either order of the pair.         *)
(***************************************************************************)
interval_contains(interval, val) ==
  LET a == interval[1]
      b == interval[2]
  IN  (a <= val /\ val <= b) \/ (a >= val /\ val >= b)

(***************************************************************************)
(* SkewXAxes._set_lim_and_transforms: the transform stack.  The transforms *)
(* are nodes that read viewLim and the scale when they are applied, so     *)
(* each is an operator of the current state.  Points are <<x, y>>.         *)
(***************************************************************************)
\* transScale: X is linear, Y is linear or log10.
transScale(p) ==
  << p[1], IF yscale = "log" THEN Log10(p[2]) ELSE p[2] >>

transScale_inverted(p) ==
  << p[1], IF yscale = "log" THEN Pow10(p[2]) ELSE p[2] >>

\* The view limits in scaled space: TransformedBbox(viewLim, transScale).
scaledLim ==
  LET lo == transScale(<<viewLim.intervalx[1], viewLim.intervaly[1]>>)
      hi == transScale(<<viewLim.intervalx[2], viewLim.intervaly[2]>>)
  IN  [x0 |-> lo[1], x1 |-> hi[1], y0 |-> lo[2], y1 |-> hi[2]]

\* transLimits: the scaled view limits onto the unit square.
transLimits(p) ==
  LET b == scaledLim
  IN  << Quot((p[1] - b.x0) * One, b.x1 - b.x0),
         Quot((p[2] - b.y0) * One, b.y1 - b.y0) >>

transLimits_inverted(p) ==
  LET b == scaledLim
  IN  << b.x0 + Quot(p[1] * (b.x1 - b.x0), One),
         b.y0 + Quot(p[2] * (b.y1 - b.y0), One) >>

\* Affine2D().skew_deg(rot, 0): x' = x + tan(rot) * y, y' = y.
skew_deg(p) == << p[1] + Quot(TanRot * p[2], One), p[2] >>

\* The inverse of the skew taken with the skew's own sign.
skew_deg_inverted_same_sign(p) == << p[1] + Quot(TanRot * p[2], One), p[2] >>

skew_deg_inverted(p) == << p[1] - Quot(TanRot * p[2], One), p[2] >>

\* transDataToAxes with the skew put first, in data space.
transDataToAxes_skew_first(p) == transLimits(transScale(skew_deg(p)))

\* self.transDataToAxes = transScale + transLimits + skew (no transAxes).
transDataToAxes(p) == skew_deg(transLimits(transScale(p)))

\* The inverse of transDataToAxes with the skew undone last, in data space.
transDataToAxes_inverted_skew_last(p) ==
  skew_deg_inverted(transScale_inverted(transLimits_inverted(p)))

transDataToAxes_inverted(p) ==
  transScale_inverted(transLimits_inverted(skew_deg_inverted(p)))

\* The axes' viewport in the figure, in pixels: subplot(111) of a 10 x 10 inch
\* figure.
bbox == [x0 |-> 125, y0 |-> 110, width |-> 775, height |-> 770]

\* transAxes: the unit square onto the viewport (device space, in 1/One pixel).
transAxes(p) ==
  << bbox.x0 * One + bbox.width * p[1], bbox.y0 * One + bbox.height * p[2] >>

transAxes_inverted(p) ==
  << Quot(p[1] - bbox.x0 * One, bbox.width),
     Quot(p[2] - bbox.y0 * One, bbox.height) >>

\* self.transData = self.transDataToAxes + self.transAxes.
transData(p) == transAxes(transDataToAxes(p))

transData_inverted(p) == transDataToAxes_inverted(transAxes_inverted(p))

\* _xaxis_transform with Y put through the scale and the limits as well.
_xaxis_transform_full_stack(p) == transAxes(skew_deg(transLimits(transScale(p))))

\* self._xaxis_transform = (blended_transform_factory(transScale + transLimits,
\* IdentityTransform()) + skew) + transAxes: x is the x of the first transform
\* applied to the point, y is the point's own y.
_xaxis_transform(p) ==
  transAxes(skew_deg(<< transLimits(transScale(p))[1], p[2] >>))

(***************************************************************************)
(* SkewXAxes.lower_xlim and SkewXAxes.upper_xlim.                          *)
(***************************************************************************)
lower_xlim == viewLim.intervalx

\* upper_xlim with its pair put in increasing order.
upper_xlim_sorted ==
  LET lo == transDataToAxes_inverted(<<0, One>>)[1]
      hi == transDataToAxes_inverted(<<One, One>>)[1]
  IN  IF lo <= hi THEN <<lo, hi>> ELSE <<hi, lo>>

\* upper_xlim taken along the bottom edge of the unit square.
upper_xlim_bottom_edge ==
  << transDataToAxes_inverted(<<0, 0>>)[1],
     transDataToAxes_inverted(<<One, 0>>)[1] >>

\* upper_xlim kept from the last layout pass (the X coordinates stored in the
\* top spine's path) instead of recomputed.
upper_xlim_cached ==
  << spines["top"].vertices[1][1], spines["top"].vertices[2][1] >>

upper_xlim ==
  LET pts == << <<0, One>>, <<One, One>> >>
  IN  << transDataToAxes_inverted(pts[1])[1],
         transDataToAxes_inverted(pts[2])[1] >>

(***************************************************************************)
(* SkewXAxis.get_view_interval and SkewXAxis._get_tick.                    *)
(***************************************************************************)
\* get_view_interval as the host XAxis has it: the direct view limits.
get_view_interval_host == lower_xlim

\* get_view_interval with the two indices exchanged.
get_view_interval_swapped == << lower_xlim[1], upper_xlim[2] >>

get_view_interval == << upper_xlim[1], lower_xlim[2] >>

\* SkewXTick(self.axes, None, '', major=major) with the host Tick defaults.
new_tick ==
  [ _loc     |-> None,
    _gridOn  |-> FALSE,
    _tick1On |-> TRUE,  _label1On |-> TRUE,
    _tick2On |-> TRUE,  _label2On |-> FALSE ]

(***************************************************************************)
(* SkewXTick.                                                              *)
(***************************************************************************)
get_loc == tick._loc

_has_default_loc == get_loc = None

\* _need_lower with the bounds of the interval excluded.
_need_lower_strict ==
  _has_default_loc \/
    (  (lower_xlim[1] < get_loc[1] /\ get_loc[1] < lower_xlim[2])
    \/ (lower_xlim[1] > get_loc[1] /\ get_loc[1] > lower_xlim[2]))

\* _need_lower testing the upper interval.
_need_lower_uses_upper ==
  _has_default_loc \/ interval_contains(upper_xlim, get_loc[1])

_need_lower ==
  _has_default_loc \/ interval_contains(lower_xlim, get_loc[1])

\* _need_upper testing the lower interval.
_need_upper_uses_lower ==
  _has_default_loc \/ interval_contains(lower_xlim, get_loc[1])

\* _need_upper without the default-location case: an unset location is in
\* no interval.
_need_upper_no_default ==
  (~ _has_default_loc) /\ interval_contains(upper_xlim, get_loc[1])

_need_upper ==
  _has_default_loc \/ interval_contains(upper_xlim, get_loc[1])

\* The tick's get_view_interval as the host XTick has it.
tick_get_view_interval_host == viewLim.intervalx

\* SkewXTick.get_view_interval: the axis' total view interval.
tick_get_view_interval == get_view_interval

gridOn ==
  tick._gridOn /\
    (_has_default_loc \/ interval_contains(tick_get_view_interval, get_loc[1]))

tick1On == tick._tick1On /\ _need_lower

label1On == tick._label1On /\ _need_lower

\* tick2On gated by the bottom edge's predicate.
tick2On_wrong_edge == tick._tick2On /\ _need_lower

tick2On == tick._tick2On /\ _need_upper

label2On == tick._label2On /\ _need_upper

(***************************************************************************)
(* Initial state: a freshly constructed SkewXAxes.                         *)
(***************************************************************************)
\* Spine.linear_spine(axes, spine_type): the two vertices of the path.
linear_spine(spine_type) ==
  CASE spine_type = "left"   -> << <<0, 999>>,   <<0, 999>> >>
    [] spine_type = "right"  -> << <<One, 999>>, <<One, 999>> >>
    [] spine_type = "bottom" -> << <<999, 0>>,   <<999, 0>> >>
    [] spine_type = "top"    -> << <<999, One>>, <<999, One>> >>

SpineTypes == {"top", "bottom", "left", "right"}

\* _gen_axes_spines making every spine a SkewSpine.
_gen_axes_spines_all_skew ==
  [ s \in SpineTypes |-> [cls |-> "SkewSpine", vertices |-> linear_spine(s)] ]

\* _gen_axes_spines: only 'top' is a SkewSpine.
_gen_axes_spines ==
  [ s \in SpineTypes |->
      [ cls      |-> IF s = "top" THEN "SkewSpine" ELSE "Spine",
        vertices |-> linear_spine(s) ] ]

Init ==
  /\ viewLim = [intervalx |-> <<0, One>>, intervaly |-> <<0, One>>]
  /\ yscale = "linear"
  /\ tick = new_tick
  /\ spines = _gen_axes_spines
  /\ built = 1
  /\ pc = [at |-> "idle", loc |-> None]
  /\ raised = "none"
  /\ sounding = [T_UP |-> <<0>>, T_LO |-> <<0>>, TD_LO |-> <<0>>]
  /\ HI = [M |-> <<Haines_M(<<0>>, <<0>>, <<0>>)>>,
           H |-> <<Haines_H(<<0>>, <<0>>, <<0>>)>>]

\* The state before the indices are computed: a sounding has been read and
\* neither Haines function has been called (the plot's variables hold the
\* values they get when the axes are made).
InitHaines ==
  /\ viewLim = [intervalx |-> <<0, One>>, intervaly |-> <<0, One>>]
  /\ yscale = "linear"
  /\ tick = new_tick
  /\ spines = _gen_axes_spines
  /\ built = 1
  /\ pc = [at |-> "idle", loc |-> None]
  /\ raised = "none"
  /\ sounding \in Soundings
  /\ HI = [M |-> None, H |-> None]

\* HI_M = Haines_M(T_UP_mid, T_LO_mid, TD_LO_mid).
Haines_M_call ==
  /\ HI.M = None
  /\ HI' = [HI EXCEPT !.M = <<Haines_M(sounding.T_UP, sounding.T_LO, sounding.TD_LO)>>]
  /\ UNCHANGED <<viewLim, yscale, tick, spines, built, pc, raised, sounding>>

\* HI_H = Haines_H(T_UP, T_LO, TD_LO), the next statement.
Haines_H_call ==
  /\ HI.M # None
  /\ HI.H = None
  /\ HI' = [HI EXCEPT !.H = <<Haines_H(sounding.T_UP, sounding.T_LO, sounding.TD_LO)>>]
  /\ UNCHANGED <<viewLim, yscale, tick, spines, built, pc, raised, sounding>>

(***************************************************************************)
(* The client's calls on the axes.                                         *)
(***************************************************************************)
\* set_xlim running the transform-setup hook again.
set_xlim_rebuilding(left, right) ==
  /\ pc.at = "idle"
  /\ left # right
  /\ viewLim' = [viewLim EXCEPT !.intervalx = <<left * One, right * One>>]
  /\ built' = built + 1
  /\ UNCHANGED <<yscale, tick, spines, pc, raised, sounding, HI>>

\* ax.set_xlim(left, right); equal limits are widened by the host, so the
\* stored limits always differ.
set_xlim(left, right) ==
  /\ left # right
  /\ viewLim' = [viewLim EXCEPT !.intervalx = <<left * One, right * One>>]
  /\ pc.at = "idle"
  /\ UNCHANGED <<yscale, tick, spines, built, pc, raised, sounding, HI>>

\* ax.set_xlim(v, v): zero-width limits.  Neither the axes' code nor the
\* host raises: the host widens the pair by a thousandth (of v, or of one
\* when v is 0) on each side and stores it.
set_xlim_equal(v) ==
  /\ pc.at = "idle"
  /\ LET e == IF v = 0 THEN 1 ELSE IF v > 0 THEN v ELSE 0 - v
     IN  viewLim' = [viewLim EXCEPT !.intervalx = <<v * One - e, v * One + e>>]
  /\ raised' = "none"
  /\ UNCHANGED <<yscale, tick, spines, built, pc, sounding, HI>>

\* ax.set_ylim(bottom, top).
set_ylim(bottom, top) ==
  /\ bottom # top
  /\ viewLim' = [viewLim EXCEPT !.intervaly = <<bottom * One, top * One>>]
  /\ pc.at = "idle"
  /\ UNCHANGED <<yscale, tick, spines, built, pc, raised, sounding, HI>>

\* ax.semilogy(...): the Y scale becomes log; limits that a log axis cannot
\* show are replaced by the range of the plotted data.
semilogy(lo, hi) ==
  /\ yscale = "linear"
  /\ lo < hi
  /\ yscale' = "log"
  /\ viewLim' =
       IF viewLim.intervaly[1] > 0 /\ viewLim.intervaly[2] > 0
         THEN viewLim
         ELSE [viewLim EXCEPT !.intervaly = <<lo * One, hi * One>>]
  /\ pc.at = "idle"
  /\ UNCHANGED <<tick, spines, built, pc, raised, sounding, HI>>

(***************************************************************************)
(* The axis' calls on the tick.                                            *)
(***************************************************************************)
\* SkewXAxis._get_tick: the axis replaces the tick by a new one.
_get_tick ==
  /\ tick' = new_tick
  /\ pc.at = "idle"
  /\ UNCHANGED <<viewLim, yscale, spines, built, pc, raised, sounding, HI>>

\* SkewXTick.update_position(loc).
update_position(loc) ==
  /\ tick' = [tick EXCEPT !._loc = loc]
  /\ pc.at = "idle"
  /\ UNCHANGED <<viewLim, yscale, spines, built, pc, raised, sounding, HI>>

\* update_position(loc), statement by statement.  A call that enters the
\* host's method without having stored the new location first:
update_position_store_late(loc) ==
  /\ pc.at = "idle"
  /\ pc' = [at |-> "super", loc |-> loc]
  /\ UNCHANGED <<viewLim, yscale, tick, spines, built, raised, sounding, HI>>

\* self._loc = loc; the call then stands before super().update_position(loc).
update_position_store(loc) ==
  /\ pc.at = "idle"
  /\ tick' = [tick EXCEPT !._loc = loc]
  /\ pc' = [at |-> "super", loc |-> loc]
  /\ UNCHANGED <<viewLim, yscale, spines, built, raised, sounding, HI>>

\* super(SkewXTick, self).update_position(loc): the host reads the tick's
\* visibility properties to place its artists, stores loc and returns.
XTick_update_position ==
  /\ pc.at = "super"
  /\ tick' = [tick EXCEPT !._loc = pc.loc]
  /\ pc' = [at |-> "idle", loc |-> None]
  /\ UNCHANGED <<viewLim, yscale, spines, built, raised, sounding, HI>>

\* The property setters.
set_gridOn(value) ==
  /\ tick' = [tick EXCEPT !._gridOn = value]
  /\ pc.at = "idle"
  /\ UNCHANGED <<viewLim, yscale, spines, built, pc, raised, sounding, HI>>

set_tick1On(value) ==
  /\ tick' = [tick EXCEPT !._tick1On = value]
  /\ pc.at = "idle"
  /\ UNCHANGED <<viewLim, yscale, spines, built, pc, raised, sounding, HI>>

set_label1On(value) ==
  /\ tick' = [tick EXCEPT !._label1On = value]
  /\ pc.at = "idle"
  /\ UNCHANGED <<viewLim, yscale, spines, built, pc, raised, sounding, HI>>

\* A tick2On setter that drops the top label's flag with the top mark's.
set_tick2On_with_label(value) ==
  /\ tick' = [tick EXCEPT !._tick2On = value,
                          !._label2On = tick._label2On /\ value]
  /\ pc.at = "idle"
  /\ UNCHANGED <<viewLim, yscale, spines, built, pc, raised, sounding, HI>>

set_tick2On(value) ==
  /\ tick' = [tick EXCEPT !._tick2On = value]
  /\ pc.at = "idle"
  /\ UNCHANGED <<viewLim, yscale, spines, built, pc, raised, sounding, HI>>

set_label2On(value) ==
  /\ tick' = [tick EXCEPT !._label2On = value]
  /\ pc.at = "idle"
  /\ UNCHANGED <<viewLim, yscale, spines, built, pc, raised, sounding, HI>>

(***************************************************************************)
(* The layout pass: every spine's _adjust_location.                        *)
(***************************************************************************)
\* pts[:, 0] = interval: the X coordinates of both vertices.
set_xs(v, interval) == << <<interval[1], v[1][2]>>, <<interval[2], v[2][2]>> >>

\* the Y coordinates of both vertices.
set_ys(v, interval) == << <<v[1][1], interval[1]>>, <<v[2][1], interval[2]>> >>

\* SkewSpine._adjust_location with its two branches exchanged.
SkewSpine_adjust_location_swapped(spine_type, v) ==
  IF spine_type = "top"
    THEN set_xs(v, lower_xlim)
    ELSE set_xs(v, upper_xlim)

\* SkewSpine._adjust_location.
SkewSpine_adjust_location(spine_type, v) ==
  IF spine_type = "top"
    THEN set_xs(v, upper_xlim)
    ELSE set_xs(v, lower_xlim)

\* The host's Spine._adjust_location: the spine follows the view limits.
Spine_adjust_location(spine_type, v) ==
  IF spine_type \in {"left", "right"}
    THEN set_ys(v, viewLim.intervaly)
    ELSE set_xs(v, viewLim.intervalx)

_adjust_location(s) ==
  IF spines[s].cls = "SkewSpine"
    THEN SkewSpine_adjust_location(s, spines[s].vertices)
    ELSE Spine_adjust_location(s, spines[s].vertices)

draw ==
  /\ spines' = [ s \in SpineTypes |->
                   [spines[s] EXCEPT !.vertices = _adjust_location(s)] ]
  /\ pc.at = "idle"
  /\ UNCHANGED <<viewLim, yscale, tick, built, pc, raised, sounding, HI>>

\* The host's render pass, seen from inside: Spine.draw runs every spine's
\* _adjust_location, then the pass goes on (pc.at = "rendered") to draw the
\* tick from its visibility properties ...
render_pass ==
  /\ pc.at = "idle"
  /\ spines' = [ s \in SpineTypes |->
                   [spines[s] EXCEPT !.vertices = _adjust_location(s)] ]
  /\ pc' = [at |-> "rendered", loc |-> None]
  /\ UNCHANGED <<viewLim, yscale, tick, built, raised, sounding, HI>>

\* ... and returns to the client.
render_done ==
  /\ pc.at = "rendered"
  /\ pc' = [at |-> "idle", loc |-> None]
  /\ UNCHANGED <<viewLim, yscale, tick, spines, built, raised, sounding, HI>>

(***************************************************************************)
(* Specifications.                                                         *)
(***************************************************************************)
SetLimits ==
  \/ \E left \in XVals, right \in XVals : set_xlim(left, right)
  \/ \E bottom \in YVals, top \in YVals : set_ylim(bottom, top)
  \/ \E lo \in YVals, hi \in YVals : semilogy(lo, hi)

TickOps ==
  \/ _get_tick
  \/ \E loc \in Locs : update_position(loc)
  \/ \E value \in BOOLEAN : set_gridOn(value)
  \/ \E value \in BOOLEAN : set_tick1On(value)
  \/ \E value \in BOOLEAN : set_label1On(value)
  \/ \E value \in BOOLEAN : set_tick2On(value)
  \/ \E value \in BOOLEAN : set_label2On(value)

\* Everything the client and the host can do, in any order.
Next ==
  \/ SetLimits \/ TickOps \/ draw
  \/ (\E v \in XVals : set_xlim_equal(v))
  \/ render_pass \/ render_done
  \/ (\E loc \in Locs : update_position_store(loc)) \/ XTick_update_position

Spec == Init /\ [][Next]_vars

\* The ticks under changing view limits (no layout pass: the spines keep
\* their constructed paths).
NextTick == SetLimits \/ TickOps

SpecTick == Init /\ [][NextTick]_vars

\* The layout passes under changing view limits (the tick is the one the
\* factory made).
NextLayout == SetLimits \/ draw

SpecLayout == Init /\ [][NextLayout]_vars

\* The render passes: the X limits and the Y scale change, the axis moves
\* its tick, the render pass runs (the tick keeps the flags the factory gave
\* it).
NextRender ==
  \/ \E left \in XVals, right \in XVals : set_xlim(left, right)
  \/ \E lo \in YVals, hi \in YVals : semilogy(lo, hi)
  \/ \E loc \in Locs : update_position(loc)
  \/ render_pass
  \/ render_done

SpecRender == Init /\ [][NextRender]_vars

\* The tick under interleaved flag assignments, update_position calls (taken
\* statement by statement) and X limit changes.
NextPosition ==
  \/ \E left \in XVals, right \in XVals : set_xlim(left, right)
  \/ _get_tick
  \/ \E loc \in Locs : update_position_store(loc)
  \/ XTick_update_position
  \/ \E value \in BOOLEAN : set_gridOn(value)
  \/ \E value \in BOOLEAN : set_tick1On(value)
  \/ \E value \in BOOLEAN : set_label1On(value)
  \/ \E value \in BOOLEAN : set_tick2On(value)
  \/ \E value \in BOOLEAN : set_label2On(value)

SpecPosition == Init /\ [][NextPosition]_vars

\* Limit changes that include zero-width requests, and layout passes.
NextDegenerate ==
  \/ SetLimits
  \/ \E v \in XVals : set_xlim_equal(v)
  \/ draw

SpecDegenerate == Init /\ [][NextDegenerate]_vars

\* The plot of __main__: its X limits, Y limits (and two other pairs, normal
\* and inverted), the range of the plotted pressures, and the tick locations
\* MultipleLocator(10) yields over the lower and the upper interval.
ScenarioXlim == << -50, 50 >>

ScenarioYlims == { <<1050, 100>>, <<1000, 100>>, <<100, 1050>> }

ScenarioData == << 1, 1000 >>

ScenarioLocs == {None} \cup { <<10 * k * One>> : k \in (0 - 11) .. 5 }

NextScenario ==
  \/ set_xlim(ScenarioXlim[1], ScenarioXlim[2])
  \/ \E yl \in ScenarioYlims : set_ylim(yl[1], yl[2])
  \/ semilogy(ScenarioData[1], ScenarioData[2])
  \/ _get_tick
  \/ \E loc \in ScenarioLocs : update_position(loc)
  \/ \E value \in BOOLEAN : set_gridOn(value)
  \/ \E value \in BOOLEAN : set_tick1On(value)
  \/ \E value \in BOOLEAN : set_label1On(value)
  \/ \E value \in BOOLEAN : set_tick2On(value)
  \/ \E value \in BOOLEAN : set_label2On(value)

SpecScenario == Init /\ [][NextScenario]_vars

\* The setters at work on the plot of __main__: the default location and four
\* of the locator's locations, one off both edges (-110), one on the top edge
\* only (-100), one on both edges (-30) and one on the bottom edge only (0).
FlagLocs == {None} \cup { <<10 * k * One>> : k \in {0 - 11, 0 - 10, 0 - 3, 0} }

NextFlags ==
  \/ set_xlim(ScenarioXlim[1], ScenarioXlim[2])
  \/ \E loc \in FlagLocs : update_position(loc)
  \/ \E value \in BOOLEAN : set_gridOn(value)
  \/ \E value \in BOOLEAN : set_tick1On(value)
  \/ \E value \in BOOLEAN : set_label1On(value)
  \/ \E value \in BOOLEAN : set_tick2On(value)
  \/ \E value \in BOOLEAN : set_label2On(value)

SpecFlags == Init /\ [][NextFlags]_vars

NextHaines == Haines_M_call \/ Haines_H_call

SpecHaines == InitHaines /\ [][NextHaines]_vars

(***************************************************************************)
(* Properties of the tick's visibility (checked under SpecTick).           *)
(***************************************************************************)
\* C1: every edge visibility read from the tick is its own raw flag AND the
\* need predicate of its edge: tick1On and label1On with _need_lower (bottom),
\* tick2On and label2On with _need_upper (top), whatever the view limits.
C1_EdgeVisibility ==
  /\ tick1On  = (tick._tick1On  /\ _need_lower)
  /\ label1On = (tick._label1On /\ _need_lower)
  /\ tick2On  = (tick._tick2On  /\ _need_upper)
  /\ label2On = (tick._label2On /\ _need_upper)

\* A tick with all four flags raised that shows on the top edge only.
C1_Witness ==
  /\ tick._tick1On /\ tick._label1On /\ tick._tick2On /\ tick._label2On
  /\ ~ tick1On /\ ~ label1On /\ tick2On /\ label2On

\* C2: _need_lower holds exactly when the location is unset or lies between
\* the two X view limits as stored (no transform), both limits included, in
\* either order of the limits; a tick exactly on a limit is contained.
C2_NeedLowerInclusive ==
  LET a  == viewLim.intervalx[1]
      b  == viewLim.intervalx[2]
      lo == IF a <= b THEN a ELSE b
      hi == IF a <= b THEN b ELSE a
  IN  /\ _need_lower =
           (tick._loc = None \/ (lo <= tick._loc[1] /\ tick._loc[1] <= hi))
      /\ (tick._loc = <<a>> \/ tick._loc = <<b>>) => _need_lower

\* A tick exactly on the second limit of an inverted lower interval.
C2_Witness ==
  /\ viewLim.intervalx[1] > viewLim.intervalx[2]
  /\ tick._loc = <<viewLim.intervalx[2]>>
  /\ _need_lower

\* C3: _need_upper holds exactly when the location is unset or lies between
\* the two ends of the upper interval as computed from the current
\* transform, both ends included.
C3_NeedUpperInclusive ==
  LET a  == upper_xlim[1]
      b  == upper_xlim[2]
      lo == IF a <= b THEN a ELSE b
      hi == IF a <= b THEN b ELSE a
  IN  /\ _need_upper =
           (tick._loc = None \/ (lo <= tick._loc[1] /\ tick._loc[1] <= hi))
      /\ (tick._loc = <<a>> \/ tick._loc = <<b>>) => _need_upper

\* A tick exactly on the first end of the upper interval, outside the lower.
C3_Witness ==
  /\ tick._loc = <<upper_xlim[1]>>
  /\ _need_upper
  /\ ~ _need_lower

\* C4: the gridline visibility is the raw gridline flag AND (location unset
\* OR location within the axis' total view interval, from the upper
\* interval's first end to the lower interval's second end); the total
\* interval is neither per-edge interval.
C4_GridOnTotalInterval ==
  LET a  == upper_xlim[1]
      b  == lower_xlim[2]
      lo == IF a <= b THEN a ELSE b
      hi == IF a <= b THEN b ELSE a
  IN  /\ gridOn =
           (tick._gridOn /\
              (tick._loc = None \/ (lo <= tick._loc[1] /\ tick._loc[1] <= hi)))
      /\ <<a, b>> # lower_xlim
      /\ <<a, b>> # upper_xlim

\* A tick whose gridline is visible while its mark is hidden on the bottom
\* edge although the mark's own flag is raised.
C4_Witness ==
  /\ gridOn
  /\ tick._tick1On /\ ~ tick1On
  /\ tick._tick2On /\ tick2On

(***************************************************************************)
(* Properties of the intervals (checked under SpecLayout and SpecTick).    *)
(***************************************************************************)
\* C5: upper_xlim is the pair of X coordinates of the points that the
\* pre-viewport transform transDataToAxes (scale, limits, shear; no
\* viewport) carries onto (0, 1) and (1, 1), in that order and unsorted:
\* the pair increases with normal X limits and decreases with inverted ones.
C5_UpperIntervalInverseImage ==
  LET ytop == viewLim.intervaly[2]
  IN  /\ transDataToAxes(<<upper_xlim[1], ytop>>) = <<0, One>>
      /\ transDataToAxes(<<upper_xlim[2], ytop>>) = <<One, One>>
      /\ viewLim.intervalx[1] < viewLim.intervalx[2]
           => upper_xlim[1] < upper_xlim[2]
      /\ viewLim.intervalx[1] > viewLim.intervalx[2]
           => upper_xlim[1] > upper_xlim[2]

\* Inverted X limits on a log Y axis: the upper interval's low exceeds its high.
C5_Witness ==
  /\ viewLim.intervalx[1] > viewLim.intervalx[2]
  /\ yscale = "log"
  /\ upper_xlim[1] > upper_xlim[2]

\* C6: the X axis reports as its total view interval the first component of
\* the upper interval and the second component of the lower interval, for
\* every state of the view limits.
C6_TotalViewInterval ==
  /\ get_view_interval[1] = upper_xlim[1]
  /\ get_view_interval[2] = lower_xlim[2]
  /\ Len(get_view_interval) = 2

\* Inverted limits on a log Y axis, where the total interval is neither the
\* lower nor the upper interval.
C6_Witness ==
  /\ viewLim.intervalx[1] > viewLim.intervalx[2]
  /\ yscale = "log"
  /\ get_view_interval = <<upper_xlim[1], lower_xlim[2]>>
  /\ get_view_interval # lower_xlim
  /\ get_view_interval # upper_xlim

\* C7: the total view interval covers both edges: whatever the X limits
\* (normal or inverted), every value contained in the lower interval or in
\* the upper interval is contained in the total interval; so a located tick
\* that passes _need_lower or _need_upper has its gridline as its raw flag.
C7_TotalCoversBothEdges ==
  /\ \A l \in Locs \ {None} :
       (interval_contains(lower_xlim, l[1]) \/ interval_contains(upper_xlim, l[1]))
         => interval_contains(get_view_interval, l[1])
  /\ (tick._loc # None /\ (_need_lower \/ _need_upper))
       => (gridOn = tick._gridOn)

\* Inverted limits, a tick on the top edge only, its gridline visible.
C7_Witness ==
  /\ viewLim.intervalx[1] > viewLim.intervalx[2]
  /\ tick._loc # None
  /\ _need_upper /\ ~ _need_lower
  /\ gridOn

(***************************************************************************)
(* Properties of the layout pass (checked under SpecLayout).               *)
(***************************************************************************)
\* C8: every layout pass sets the X coordinates of the top spine's two
\* vertices to the current upper interval, first end then second end,
\* unsorted, and leaves their Y coordinates as they were.
C8_TopSpineTracksUpper ==
  [][ draw =>
        LET old == spines["top"].vertices
            new == spines'["top"].vertices
        IN  /\ <<new[1][1], new[2][1]>> = upper_xlim'
            /\ <<new[1][2], new[2][2]>> = <<old[1][2], old[2][2]>> ]_vars

\* The top spine drawn over an inverted (decreasing) upper interval.
C8_Witness ==
  LET v == spines["top"].vertices
  IN  /\ <<v[1][1], v[2][1]>> = upper_xlim
      /\ v[1][1] > v[2][1]
      /\ <<v[1][2], v[2][2]>> = <<One, One>>

\* C9: only the top spine is a SkewSpine; a layout pass puts the direct X
\* view limits in the bottom spine's X coordinates and the direct Y view
\* limits in the left and right spines' Y coordinates, leaves their other
\* coordinates alone, and writes the upper interval into none of them.
C9_OnlyTopOverridden ==
  [][ draw =>
        /\ \A s \in {"bottom", "left", "right"} :
             /\ spines[s].cls = "Spine"
             /\ << spines'[s].vertices[1][1], spines'[s].vertices[2][1] >>
                  # upper_xlim
        /\ LET old == spines["bottom"].vertices
               new == spines'["bottom"].vertices
           IN  /\ <<new[1][1], new[2][1]>> = viewLim.intervalx
               /\ <<new[1][2], new[2][2]>> = <<old[1][2], old[2][2]>>
        /\ \A s \in {"left", "right"} :
             LET old == spines[s].vertices
                 new == spines'[s].vertices
             IN  /\ <<new[1][2], new[2][2]>> = viewLim.intervaly
                 /\ <<new[1][1], new[2][1]>> = <<old[1][1], old[2][1]>> ]_vars

\* After a layout pass under inverted X limits: the bottom spine lies on the
\* lower interval, the top one on the different upper interval, and the left
\* spine still stands at X = 0.
C9_Witness ==
  LET bot  == spines["bottom"].vertices
      top  == spines["top"].vertices
      left == spines["left"].vertices
  IN  /\ viewLim.intervalx[1] > viewLim.intervalx[2]
      /\ <<bot[1][1], bot[2][1]>> = lower_xlim
      /\ <<top[1][1], top[2][1]>> = upper_xlim
      /\ <<left[1][2], left[2][2]>> = viewLim.intervaly
      /\ <<left[1][1], left[2][1]>> = <<0, 0>>

\* C10: the tick factory makes ticks with no location, and a tick with no
\* location passes _need_lower and _need_upper whatever the two intervals
\* are, so each of its five visibilities is its raw flag.
C10_DefaultLocAlwaysVisible ==
  /\ new_tick._loc = None
  /\ tick._loc = None =>
       /\ _need_lower
       /\ _need_upper
       /\ tick1On  = tick._tick1On
       /\ label1On = tick._label1On
       /\ tick2On  = tick._tick2On
       /\ label2On = tick._label2On
       /\ gridOn   = tick._gridOn

\* An unset tick under inverted limits whose top label and gridline, raised
\* after the factory made it, are visible.
C10_Witness ==
  /\ tick._loc = None
  /\ viewLim.intervalx[1] > viewLim.intervalx[2]
  /\ tick._label2On /\ label2On
  /\ tick._gridOn /\ gridOn

(***************************************************************************)
(* Freshness of the upper interval (checked under SpecRender).             *)
(***************************************************************************)
\* C11: the upper interval is never stale.  In every state reached by view
\* limit and scale changes, upper_xlim and the top-edge tick visibility
\* read from it are those of the current X limits (x - tan(rot) * width at
\* both ends); and inside a render pass, once the layout has run, the top
\* spine lies on the upper interval of the limits current in that pass.
C11_UpperNeverStale ==
  LET x0  == viewLim.intervalx[1]
      x1  == viewLim.intervalx[2]
      cur == << x0 - Quot(TanRot * (x1 - x0), One),
                x1 - Quot(TanRot * (x1 - x0), One) >>
      top == << spines["top"].vertices[1][1], spines["top"].vertices[2][1] >>
  IN  /\ upper_xlim = cur
      /\ tick2On =
           (tick._tick2On /\
              (tick._loc = None \/ interval_contains(cur, tick._loc[1])))
      /\ pc.at = "rendered" => top = cur

\* Inside a render pass after limit changes to inverted X on a log Y axis: the
\* top spine lies on the current upper interval and a located tick shows on
\* the top edge only.
C11_Witness ==
  /\ pc.at = "rendered"
  /\ viewLim.intervalx[1] > viewLim.intervalx[2]
  /\ yscale = "log"
  /\ << spines["top"].vertices[1][1], spines["top"].vertices[2][1] >> = upper_xlim
  /\ tick._loc # None
  /\ tick2On /\ ~ tick1On

(***************************************************************************)
(* The transform-setup hook (checked under SpecLayout).                    *)
(***************************************************************************)
\* C12 (as claimed): _set_lim_and_transforms runs once for every change of
\* the view limits.
C12_RebuiltOnEveryChange ==
  [][ viewLim' # viewLim => built' = built + 1 ]_vars

\* C12 (amended): _set_lim_and_transforms has run exactly once, when the
\* axes were created, whatever limit and scale changes followed; the
\* transforms it composed read the current limits all the same: they carry
\* the current view limits' corners onto the unit square's corners before
\* the shear, and onto the sheared corners after it.
C12_BuiltOnceTransformsLive ==
  LET lo == <<viewLim.intervalx[1], viewLim.intervaly[1]>>
      hi == <<viewLim.intervalx[2], viewLim.intervaly[2]>>
  IN  /\ built = 1
      /\ transLimits(transScale(lo)) = <<0, 0>>
      /\ transLimits(transScale(hi)) = <<One, One>>
      /\ transDataToAxes(lo) = <<0, 0>>
      /\ transDataToAxes(hi) = <<One + TanRot, One>>

\* Both limits and the scale changed since construction, the hook still run
\* once.
C12_Witness ==
  /\ built = 1
  /\ yscale = "log"
  /\ viewLim.intervalx[1] > viewLim.intervalx[2]
  /\ viewLim.intervaly[1] > viewLim.intervaly[2]
  /\ transDataToAxes(<<viewLim.intervalx[2], viewLim.intervaly[2]>>)
       = <<One + TanRot, One>>

(***************************************************************************)
(* Visibility as a function of the current values (under SpecPosition).    *)
(***************************************************************************)
\* C13: after any interleaving of flag assignments, update_position calls
\* and view-limit changes, every visibility read is the same function of
\* the tick's current raw flag, its current location and the current
\* intervals; and while update_position is inside the host's method the
\* stored location already is the call's argument, so no read made there
\* sees the previous location.
C13_VisibilityOfCurrentValues ==
  LET x0    == viewLim.intervalx[1]
      x1    == viewLim.intervalx[2]
      lower == <<x0, x1>>
      upper == << x0 - Quot(TanRot * (x1 - x0), One),
                  x1 - Quot(TanRot * (x1 - x0), One) >>
      total == << upper[1], lower[2] >>
      In(i) == tick._loc = None \/ interval_contains(i, tick._loc[1])
  IN  /\ tick1On  = (tick._tick1On  /\ In(lower))
      /\ label1On = (tick._label1On /\ In(lower))
      /\ tick2On  = (tick._tick2On  /\ In(upper))
      /\ label2On = (tick._label2On /\ In(upper))
      /\ gridOn   = (tick._gridOn   /\ In(total))
      /\ pc.at = "super" => tick._loc = pc.loc

\* Inside the host's update_position with a new location that shows on the
\* top edge and not on the bottom edge.
C13_Witness ==
  /\ pc.at = "super"
  /\ pc.loc # None
  /\ tick._loc = pc.loc
  /\ tick._tick1On /\ ~ tick1On
  /\ tick._tick2On /\ tick2On

(***************************************************************************)
(* The composed transforms (checked under SpecLayout).                     *)
(***************************************************************************)
\* C14: in the data-to-axes transform the shear comes after the limits
\* normalization and before the viewport mapping: a point whose normalized
\* coordinates are (x, y) goes to (x + y * tan(rot), y), and from there
\* through the viewport; so points of equal normalized Y shift horizontally
\* by the same amount, whatever their X.
C14_ShearInAxesSpace ==
  LET pts == { <<x * One, y>> :
                 x \in XVals,
                 y \in {viewLim.intervaly[1], viewLim.intervaly[2]} }
      n(p) == transLimits(transScale(p))
      shift(p) == transDataToAxes(p)[1] - n(p)[1]
  IN  /\ \A p \in pts :
           /\ transDataToAxes(p) = << n(p)[1] + Quot(TanRot * n(p)[2], One), n(p)[2] >>
           /\ transData(p) =
                << bbox.x0 * One
                     + bbox.width * (n(p)[1] + Quot(TanRot * n(p)[2], One)),
                   bbox.y0 * One + bbox.height * n(p)[2] >>
      /\ \A p \in pts, q \in pts :
           n(p)[2] = n(q)[2] => shift(p) = shift(q)

\* Inverted X limits on a log Y axis: the two top corners are shifted by
\* tan(rot), the bottom corner is not shifted.
C14_Witness ==
  /\ yscale = "log"
  /\ viewLim.intervalx[1] > viewLim.intervalx[2]
  /\ transDataToAxes(<<viewLim.intervalx[1], viewLim.intervaly[2]>>)
       = <<TanRot, One>>
  /\ transDataToAxes(<<viewLim.intervalx[2], viewLim.intervaly[2]>>)
       = <<One + TanRot, One>>
  /\ transDataToAxes(<<viewLim.intervalx[1], viewLim.intervaly[1]>>) = <<0, 0>>

(***************************************************************************)
(* Degenerate limits (checked under SpecDegenerate).                       *)
(***************************************************************************)
\* C15: a request for zero-width X limits fails fast: the call surfaces an
\* error to its caller.
C15_DegenerateFailsFast ==
  [][ (\E v \in XVals : set_xlim_equal(v)) => raised' # "none" ]_vars

(***************************************************************************)
(* The plot of __main__ (checked under SpecScenario).                      *)
(***************************************************************************)
\* C16: with X limits (-50, 50), a tick located at X = 0 shows on the bottom
\* edge whenever its bottom-edge flags are raised (mark and label equal
\* their raw flags), whatever the Y limits and the Y scale are, those of the
\* plot (log, (1050, 100)) included.
C16_TickAtZeroOnBottomEdge ==
  (viewLim.intervalx = <<(0 - 50) * One, 50 * One>> /\ tick._loc = <<0>>)
    => /\ tick1On  = tick._tick1On
       /\ label1On = tick._label1On

\* The plot's limits and scale, the tick at 0 shown on the bottom edge (and,
\* 0 lying outside the upper interval, not on the top edge).
C16_Witness ==
  /\ yscale = "log"
  /\ viewLim.intervaly = <<1050 * One, 100 * One>>
  /\ viewLim.intervalx = <<(0 - 50) * One, 50 * One>>
  /\ tick._loc = <<0>>
  /\ tick._tick1On /\ tick1On
  /\ tick._label1On /\ label1On
  /\ tick._tick2On /\ ~ tick2On

\* C17: with X limits (-50, 50) the top edge's interval is (-50, 50) shifted
\* by -tan(rot) * 1 * 100: the shear, times the normalized height of the top
\* edge (the full Y span, 1), times the X width; the same for all the Y
\* limits and scales of the scenario.
C17_TopEdgeShift ==
  viewLim.intervalx = <<(0 - 50) * One, 50 * One>>
    => /\ upper_xlim[1] - lower_xlim[1] = 0 - TanRot * 100
       /\ upper_xlim[2] - lower_xlim[2] = 0 - TanRot * 100
       /\ upper_xlim = << (0 - 50) * One - TanRot * 100, 50 * One - TanRot * 100 >>

\* The plot's limits and scale with the shifted upper interval (-107.7, -7.7).
C17_Witness ==
  /\ yscale = "log"
  /\ viewLim.intervaly = <<1050 * One, 100 * One>>
  /\ viewLim.intervalx = <<(0 - 50) * One, 50 * One>>
  /\ upper_xlim = <<0 - 107700, 0 - 7700>>

(***************************************************************************)
(* Algebra of the transforms (checked under SpecLayout).                   *)
(***************************************************************************)
\* The reference points of upper_xlim: the top corners of the unit square.
RefPoints == { <<0, One>>, <<One, One>> }

\* C18: the top corners (0,1) and (1,1) of the unit square, taken through the
\* inverse of transDataToAxes and then forward through it, come back
\* unchanged; and the data points they come from, taken forward and then
\* back, come back unchanged too, under every setting of the view limits.
C18_UpperRoundTrip ==
  \A pt \in RefPoints :
    LET d == transDataToAxes_inverted(pt)
    IN  /\ transDataToAxes(d) = pt
        /\ transDataToAxes_inverted(transDataToAxes(d)) = d

\* Limits set away from the initial ones on a log Y scale, the inverse image of
\* the top-left corner being off the lower limit (the shear acts), and the
\* round trip closing.
C18_Witness ==
  /\ yscale = "log"
  /\ viewLim.intervalx # <<0, One>>
  /\ transDataToAxes_inverted(<<0, One>>)[1] # viewLim.intervalx[1]
  /\ transDataToAxes_inverted(<<0, One>>)[2] = viewLim.intervaly[2]
  /\ transDataToAxes(transDataToAxes_inverted(<<0, One>>)) = <<0, One>>

\* C19: _xaxis_transform takes X through the scale and the limits
\* normalization and leaves Y as given (an axes coordinate), then shears in
\* axes space by tan(rot) * y and maps onto the viewport: its device y is the
\* viewport's image of y whatever the Y limits and the Y scale are, and at
\* y = 0 and y = 1 it meets transData taken at the bottom and the top Y limit.
C19_XAxisTransformBlended ==
  \A x \in XVals : \A y \in {0, One} :
    LET x0 == viewLim.intervalx[1]
        x1 == viewLim.intervalx[2]
        nx == Quot((x * One - x0) * One, x1 - x0)
        g  == _xaxis_transform(<<x * One, y>>)
        yd == IF y = 0 THEN viewLim.intervaly[1] ELSE viewLim.intervaly[2]
    IN  /\ g[1] = bbox.x0 * One + bbox.width * (nx + Quot(TanRot * y, One))
        /\ g[2] = bbox.y0 * One + bbox.height * y
        /\ g = transData(<<x * One, yd>>)

\* A log Y scale on which the axes coordinate 1, read as a data value, is not
\* the top: _xaxis_transform differs from transData at the same point, and
\* puts the lower X limit at the top of the viewport, sheared by tan(rot).
C19_Witness ==
  LET g == _xaxis_transform(<<viewLim.intervalx[1], One>>)
  IN  /\ yscale = "log"
      /\ g # transData(<<viewLim.intervalx[1], One>>)
      /\ g = << bbox.x0 * One + bbox.width * TanRot,
                (bbox.y0 + bbox.height) * One >>

\* C20: with X limits (xmin, xmax) the upper interval is
\* (xmin - tan(rot) * (xmax - xmin), xmax - tan(rot) * (xmax - xmin)): its
\* signed width is that of the lower interval, and its offset is made of the
\* X width and the shear only, the same under every Y limit pair and Y scale.
C20_UpperIntervalClosedForm ==
  LET xmin == lower_xlim[1]
      xmax == lower_xlim[2]
      off  == Quot(TanRot * (xmax - xmin), One)
  IN  /\ upper_xlim = << xmin - off, xmax - off >>
      /\ upper_xlim[2] - upper_xlim[1] = xmax - xmin

\* X limits (-1, 1) on an inverted log Y axis: the upper interval is the lower
\* one moved by -2 tan(rot).
C20_Witness ==
  /\ yscale = "log"
  /\ viewLim.intervaly[1] > viewLim.intervaly[2]
  /\ lower_xlim = << 0 - One, One >>
  /\ upper_xlim = << 0 - One - 2 * TanRot, One - 2 * TanRot >>

(***************************************************************************)
(* The property setters of SkewXTick (checked under SpecFlags).            *)
(***************************************************************************)
\* The raw flags of a tick.
RawFlags == {"_gridOn", "_tick1On", "_label1On", "_tick2On", "_label2On"}

\* C21: a step that assigns value to one of gridOn, tick1On, label1On,
\* tick2On, label2On stores value in that property's raw flag and leaves the
\* other four raw flags, the tick's location and the lower and upper
\* intervals as they were; a property reads true only if its raw flag is
\* true, so after assigning FALSE it reads FALSE.
C21_SettersFrameAndReadBack ==
  [][ /\ \A value \in BOOLEAN :
           /\ set_gridOn(value) =>
                /\ tick'._gridOn = value
                /\ \A f \in RawFlags \ {"_gridOn"} : tick'[f] = tick[f]
                /\ tick'._loc = tick._loc
                /\ lower_xlim' = lower_xlim /\ upper_xlim' = upper_xlim
                /\ (~ value => ~ gridOn')
           /\ set_tick1On(value) =>
                /\ tick'._tick1On = value
                /\ \A f \in RawFlags \ {"_tick1On"} : tick'[f] = tick[f]
                /\ tick'._loc = tick._loc
                /\ lower_xlim' = lower_xlim /\ upper_xlim' = upper_xlim
                /\ (~ value => ~ tick1On')
           /\ set_label1On(value) =>
                /\ tick'._label1On = value
                /\ \A f \in RawFlags \ {"_label1On"} : tick'[f] = tick[f]
                /\ tick'._loc = tick._loc
                /\ lower_xlim' = lower_xlim /\ upper_xlim' = upper_xlim
                /\ (~ value => ~ label1On')
           /\ set_tick2On(value) =>
                /\ tick'._tick2On = value
                /\ \A f \in RawFlags \ {"_tick2On"} : tick'[f] = tick[f]
                /\ tick'._loc = tick._loc
                /\ lower_xlim' = lower_xlim /\ upper_xlim' = upper_xlim
                /\ (~ value => ~ tick2On')
           /\ set_label2On(value) =>
                /\ tick'._label2On = value
                /\ \A f \in RawFlags \ {"_label2On"} : tick'[f] = tick[f]
                /\ tick'._loc = tick._loc
                /\ lower_xlim' = lower_xlim /\ upper_xlim' = upper_xlim
                /\ (~ value => ~ label2On')
      /\ gridOn'   => tick'._gridOn
      /\ tick1On'  => tick'._tick1On
      /\ label1On' => tick'._label1On
      /\ tick2On'  => tick'._tick2On
      /\ label2On' => tick'._label2On
    ]_vars

\* A tick made with gridOn FALSE and tick1On TRUE, after both were assigned:
\* gridOn, assigned TRUE, reads FALSE (the tick lies off both edges), tick1On,
\* assigned FALSE, reads FALSE; the other raw flags and the X limits are as
\* the assignments found them.
C21_Witness ==
  /\ tick._gridOn /\ ~ gridOn
  /\ ~ tick._tick1On /\ ~ tick1On
  /\ tick._label1On /\ tick._tick2On /\ ~ tick._label2On
  /\ tick._loc = <<(0 - 110) * One>>
  /\ lower_xlim = <<(0 - 50) * One, 50 * One>>

(***************************************************************************)
(* The Haines indices (checked under SpecHaines).                          *)
(***************************************************************************)
\* C22: once called, Haines_H and Haines_M have each returned ST + MT with ST
\* and MT in {1, 2, 3}, a whole number of 2 .. 6, for every sounding (NaN
\* temperatures included); ST is 1 below the lower threshold of
\* T_LO - T_UP, 2 from the lower threshold to the upper one, both included
\* (17 .. 21 for Haines_H, 5 .. 10 for Haines_M), and MT likewise on
\* T_LO - TD_LO (14 .. 20, 5 .. 12); neither term decreases when its
\* argument grows.
C22_HainesRangeAndCategories ==
  LET Tdiff == Sub(sounding.T_LO, sounding.T_UP)
      DD_LO == Sub(sounding.T_LO, sounding.TD_LO)
      Below(v, lo)     == v # NaN /\ v[1] < 2 * lo
      Within(v, lo, hi) == v # NaN /\ 2 * lo <= v[1] /\ v[1] <= 2 * hi
      Leq(v, w)        == v # NaN /\ w # NaN /\ v[1] <= w[1]
      Sound(r) == /\ r.ST \in 1 .. 3
                  /\ r.MT \in 1 .. 3
                  /\ r.HI = r.ST + r.MT
                  /\ r.HI \in 2 .. 6
  IN  /\ HI.H # None =>
           LET r == HI.H[1]
           IN  /\ Sound(r)
               /\ r.ST = 1 <=> Below(Tdiff, 17)
               /\ r.ST = 2 <=> Within(Tdiff, 17, 21)
               /\ r.MT = 1 <=> Below(DD_LO, 14)
               /\ r.MT = 2 <=> Within(DD_LO, 14, 20)
               /\ \A e \in Diffs :
                    /\ Leq(Tdiff, e) => r.ST <= Haines_H_ST(e)
                    /\ Leq(e, Tdiff) => Haines_H_ST(e) <= r.ST
                    /\ Leq(DD_LO, e) => r.MT <= Haines_H_MT(e)
                    /\ Leq(e, DD_LO) => Haines_H_MT(e) <= r.MT
      /\ HI.M # None =>
           LET r == HI.M[1]
           IN  /\ Sound(r)
               /\ r.ST = 1 <=> Below(Tdiff, 5)
               /\ r.ST = 2 <=> Within(Tdiff, 5, 10)
               /\ r.MT = 1 <=> Below(DD_LO, 5)
               /\ r.MT = 2 <=> Within(DD_LO, 5, 12)
               /\ \A e \in Diffs :
                    /\ Leq(Tdiff, e) => r.ST <= Haines_M_ST(e)
                    /\ Leq(e, Tdiff) => Haines_M_ST(e) <= r.ST
                    /\ Leq(DD_LO, e) => r.MT <= Haines_M_MT(e)
                    /\ Leq(e, DD_LO) => Haines_M_MT(e) <= r.MT

\* Both functions called on a sounding whose differences sit on thresholds of
\* Haines_H: T_LO - T_UP = 17 (the lower end of the middle category) and
\* T_LO - TD_LO = 20 (its upper end), so Haines_H returned 2 + 2 and
\* Haines_M, both differences being past its upper thresholds, 3 + 3.
C22_Witness ==
  /\ HI.H # None /\ HI.M # None
  /\ Sub(sounding.T_LO, sounding.T_UP) = <<2 * 17>>
  /\ Sub(sounding.T_LO, sounding.TD_LO) = <<2 * 20>>
  /\ HI.H[1] = [ST |-> 2, MT |-> 2, HI |-> 4]
  /\ HI.M[1] = [ST |-> 3, MT |-> 3, HI |-> 6]

====
